---------------------------- MODULE Spec2Model ----------------------------
(***************************************************************************)
(* Formation deck codes (LimbusTeamCodes, src/py).                         *)
(*                                                                         *)
(* A deck code is  base64( gzip( utf8( base64( payload ) ) ) ).  The       *)
(* payload is either a 553-bit positional bit stream (standard path) or a  *)
(* flat list of little-endian int32 values (out-of-rule path).             *)
(*                                                                         *)
(* Representation:                                                         *)
(*   - a byte buffer is a sequence of integers 0..255;                     *)
(*   - a str is a sequence of code points (ASCII codes for ASCII text);    *)
(*   - a call that may raise returns a record with a field `raised`;       *)
(*   - Python integers are unbounded; every value drawn here fits in a     *)
(*     signed 32-bit integer, which is what struct.pack('<i') accepts.     *)
(***************************************************************************)
EXTENDS Integers, Sequences, FiniteSets, TLC

VARIABLES
    pc,             \* position of the driver (what was called last)
    formations,     \* FormationDeckCode.encode: argument `formations`
    from_decode,    \* formations is a list returned by decode
    out_of_rule,    \* FormationDeckCode.encode: argument `out_of_rule`
    clock,          \* time.time() in whole seconds
    code,           \* the deck code string at hand
    code_from,      \* "none" | "encode" | "receive": where code came from
    inner_b64,      \* FormationDeckCode.encode: local `inner_b64`
    validate,       \* FormationDeckCode.decode: argument `validate`
    decoded,        \* what FormationDeckCode.decode returned
    bools,          \* BoolListBase64Converter: argument `bools`
    b64_string,     \* BoolListBase64Converter: the base-64 string
    expected_count, \* BoolListBase64Converter.from_base64: `expected_count`
    bools_out,      \* BoolListBase64Converter.from_base64: return value
    int_list,       \* IntListBase64Converter.encode: argument `int_list`
    int_none,       \* IntListBase64Converter.encode: the argument is None
    int_error,      \* the exception IntListBase64Converter.encode raised, or ""
    int_b64,        \* IntListBase64Converter.encode: return value
    int_out         \* IntListBase64Converter.decode: return value

deckVars == <<formations, from_decode, out_of_rule, clock, code, code_from,
              inner_b64, validate, decoded>>
boolVars == <<bools, b64_string, expected_count, bools_out>>
intVars  == <<int_list, int_none, int_error, int_b64, int_out>>
vars     == <<pc, deckVars, boolVars, intVars>>

-----------------------------------------------------------------------------
(* Bounds of the model.                                                    *)

MaxForms == 2       \* formations appended by hand to one input list
MaxClock == 1       \* the clock runs 0..MaxClock
MaxBits  == 9       \* length of a bool list given to to_base64
MaxInts  == 2       \* length of an int list given to IntListBase64Converter

-----------------------------------------------------------------------------
(* Program constants.                                                      *)

NumSlots        == 12
ExpectedBits    == 553
PersonalityBits == 7
SlotTypeBits    == 4
EgoBits         == 7
EgoCount        == 5
PersonalityBase == 10000
EgoBase         == 20000
SlotStride      == 100
IdMax           == 99999
SlotTypeMax     == 15

Int32Max == 2147483647
Int32Min == -2147483647 - 1

-----------------------------------------------------------------------------
(* Small helpers.                                                          *)

Min(a, b) == IF a < b THEN a ELSE b

\* the outcome of a call: a returned value, or an exception leaving the call
Ret(v) == [raised |-> FALSE, value |-> v]
Raise  == [raised |-> TRUE, value |-> <<>>]

\* value >> i  &  1   (Python shifts arithmetically; \div floors likewise)
BitAt(value, i) == (value \div (2 ^ i)) % 2

-----------------------------------------------------------------------------
(* base64 (the standard library's b64encode / b64decode).                  *)

PadChar == 61       \* '='

\* the alphabet A-Z a-z 0-9 + /
B64Char(v) ==
    IF v < 26 THEN 65 + v
    ELSE IF v < 52 THEN 97 + (v - 26)
    ELSE IF v < 62 THEN 48 + (v - 52)
    ELSE IF v = 62 THEN 43 ELSE 47

\* the value of an alphabet character, 64 for any other character
B64Value(c) ==
    IF c >= 65 /\ c <= 90 THEN c - 65
    ELSE IF c >= 97 /\ c <= 122 THEN c - 97 + 26
    ELSE IF c >= 48 /\ c <= 57 THEN c - 48 + 52
    ELSE IF c = 43 THEN 62
    ELSE IF c = 47 THEN 63 ELSE 64

\* base64.b64encode(data).decode('ascii')
B64Encode(data) ==
    LET n == Len(data)
        At(i) == IF i <= n THEN data[i] ELSE 0
        Ch(k) ==
            LET g  == (k - 1) \div 4
                r  == (k - 1) % 4
                b0 == At(3 * g + 1)
                b1 == At(3 * g + 2)
                b2 == At(3 * g + 3)
            IN  CASE r = 0 -> B64Char(b0 \div 4)
                  [] r = 1 -> B64Char(((b0 % 4) * 16) + (b1 \div 16))
                  [] r = 2 -> IF 3 * g + 2 > n THEN PadChar
                              ELSE B64Char(((b1 % 16) * 4) + (b2 \div 64))
                  [] r = 3 -> IF 3 * g + 3 > n THEN PadChar
                              ELSE B64Char(b2 % 64)
    IN  [k \in 1..(4 * ((n + 2) \div 3)) |-> Ch(k)]

IsB64Data(c) == B64Value(c) < 64

\* binascii.a2b_base64, non-strict: the scan over the characters.  Characters
\* outside the alphabet are skipped.  A '=' is counted only once two
\* characters of the current quad were read, and it ends the scan when it
\* completes the quad: at once after three characters, as the second '='
\* since the last data character after two.  Returns the number of data
\* characters taken and whether padding ended the scan.
B64Scan(s) ==
    LET P == {i \in 1..Len(s) : s[i] = PadChar}
        NDataBefore(i) == Len(SelectSeq(SubSeq(s, 1, i - 1), IsB64Data))
        Ends(i) ==
            LET q == NDataBefore(i) % 4
            IN  \/ q = 3
                \/ /\ q = 2
                   /\ \E j \in P : /\ j < i
                                   /\ \A k \in (j + 1)..(i - 1) : ~IsB64Data(s[k])
        Stop == {i \in P : Ends(i)}
    IN  IF Stop = {}
        THEN [ndata |-> Len(SelectSeq(s, IsB64Data)), done |-> FALSE]
        ELSE [ndata |-> NDataBefore(CHOOSE i \in Stop : \A j \in Stop : i <= j),
              done |-> TRUE]

\* the bytes of the data characters sx, ndata of which the scan took
B64Bytes(sx, ndata) ==
    LET q      == ndata % 4
        nbytes == ((ndata \div 4) * 3) + (IF q = 0 THEN 0 ELSE q - 1)
        Byte(j) ==
            LET g  == (j - 1) \div 3
                r  == (j - 1) % 3
            IN  CASE r = 0 -> (B64Value(sx[4 * g + 1]) * 4)
                              + (B64Value(sx[4 * g + 2]) \div 16)
                  [] r = 1 -> ((B64Value(sx[4 * g + 2]) % 16) * 16)
                              + (B64Value(sx[4 * g + 3]) \div 4)
                  [] r = 2 -> ((B64Value(sx[4 * g + 3]) % 4) * 64)
                              + B64Value(sx[4 * g + 4])
    IN  [j \in 1..nbytes |-> Byte(j)]

\* the outcome of the scan: binascii.Error for a dangling quad
B64Outcome(s, scan) ==
    IF ~scan.done /\ scan.ndata % 4 # 0 THEN Raise
    ELSE Ret(B64Bytes(SelectSeq(s, IsB64Data), scan.ndata))

\* base64.b64decode(s) for a str s: ValueError for a non-ASCII character,
\* binascii.Error for a dangling quad, else the bytes.
B64Decode(s) ==
    IF \E i \in 1..Len(s) : s[i] > 127 THEN Raise
    ELSE B64Outcome(s, B64Scan(s))

-----------------------------------------------------------------------------
(* converters/bool_converter.py                                            *)

\* variant of BitOfData: bits taken LSB-first within the byte
BitOfDataLsbFirst(data, bit_index) ==
    BitAt(data[(bit_index \div 8) + 1], bit_index % 8) # 0

\* the loop body of from_base64: bit `bit_index` (0-based) of the buffer
BitOfData(data, bit_index) ==
    LET byte_index   == bit_index \div 8
        bit_in_byte  == bit_index % 8
        byte_value   == data[byte_index + 1]
        bit_position == 7 - bit_in_byte
    IN  BitAt(byte_value, bit_position) # 0

\* variant of BitsOfData: expected_count ignored, every bit returned
BitsOfDataAll(data, expected) ==
    [k \in 1..(Len(data) * 8) |-> BitOfData(data, k - 1)]

\* the bit loop of from_base64 over an already decoded buffer
BitsOfData(data, expected) ==
    LET range == IF expected > 0 THEN expected ELSE Len(data) * 8
        n     == Min(range, Len(data) * 8)    \* the break at byte_index >= len
    IN  [k \in 1..n |-> BitOfData(data, k - 1)]

\* from_base64 after base64.b64decode: [] if it raised, else the bit loop
BitsOfDecoded(d, expected) ==
    IF d.raised THEN Ret(<<>>)              \* except Exception: return []
    ELSE Ret(BitsOfData(d.value, expected))

\* BoolListBase64Converter.from_base64(b64_string, expected_count)
from_base64(s, expected) ==
    IF s = <<>> THEN Ret(<<>>) ELSE BitsOfDecoded(B64Decode(s), expected)

\* the byte buffer to_base64 builds (bytes_list)
BoolsToBytes(bs) ==
    LET ByteVal(i) ==      \* i: 0-based index of the first bit of the byte
            LET B(j) == IF i + j < Len(bs) /\ bs[i + j + 1]
                        THEN 2 ^ (7 - j) ELSE 0
            IN  B(0) + B(1) + B(2) + B(3) + B(4) + B(5) + B(6) + B(7)
    IN  [k \in 1..((Len(bs) + 7) \div 8) |-> ByteVal(8 * (k - 1))]

\* BoolListBase64Converter.to_base64(bools)
to_base64(bs) ==
    IF bs = <<>> THEN Ret(<<>>) ELSE Ret(B64Encode(BoolsToBytes(bs)))

-----------------------------------------------------------------------------
(* converters/int_converter.py                                             *)

\* variant of PackInt32: the bytes written big-endian ('>i')
PackInt32BigEndian(val) ==
    LET neg == val < 0
        u   == IF neg THEN (val + 2147483647) + 1 ELSE val
    IN  << (u \div 16777216) + (IF neg THEN 128 ELSE 0),
           (u \div 65536) % 256,
           (u \div 256) % 256,
           u % 256 >>

\* struct.pack('<i', val): 4 little-endian bytes, two's complement
PackInt32(val) ==
    LET neg == val < 0
        u   == IF neg THEN (val + Int32Max) + 1 ELSE val   \* the low 31 bits
    IN  << u % 256,
           (u \div 256) % 256,
           (u \div 65536) % 256,
           (u \div 16777216) + (IF neg THEN 128 ELSE 0) >>

\* struct.unpack('<i', b): the inverse reading of 4 bytes
UnpackInt32(b0, b1, b2, b3) ==
    LET low == ((b3 % 128) * 16777216) + (b2 * 65536) + (b1 * 256) + b0
    IN  IF b3 >= 128 THEN (low - Int32Max) - 1 ELSE low

\* the byte_buffer loop of IntListBase64Converter.encode
IntsToBytes(ints) ==
    [k \in 1..(4 * Len(ints)) |-> PackInt32(ints[((k - 1) \div 4) + 1])[((k - 1) % 4) + 1]]

\* IntListBase64Converter.encode(int_list), int_list not None
IntListEncode(ints) ==
    IF ints = <<>> THEN Ret(<<>>) ELSE Ret(B64Encode(IntsToBytes(ints)))

\* raise ValueError("Input list cannot be None")
RaiseValueError == [raised |-> TRUE, value |-> <<>>, error |-> "ValueError"]

\* variant of IntListEncodeCall: None taken for an empty list (`if not
\* int_list` tested first)
IntListEncodeNoneAsEmpty(is_none, ints) ==
    IF is_none THEN Ret(<<>>) ELSE IntListEncode(ints)

\* IntListBase64Converter.encode(int_list), int_list None or a list
IntListEncodeCall(is_none, ints) ==
    IF is_none THEN RaiseValueError ELSE IntListEncode(ints)

\* struct.unpack(f'<{count}i', decoded_bytes[:count * 4])
UnpackInts(data) ==
    [k \in 1..(Len(data) \div 4) |->
        UnpackInt32(data[(4 * k) - 3], data[(4 * k) - 2],
                    data[(4 * k) - 1], data[4 * k])]

\* decode after base64.b64decode: [] if it raised, else the integers
IntsOfDecoded(d) ==
    IF d.raised THEN Ret(<<>>)              \* except Exception: return []
    ELSE Ret(UnpackInts(d.value))

\* IntListBase64Converter.decode(b64_string)
IntListDecode(s) ==
    IF s = <<>> THEN Ret(<<>>) ELSE IntsOfDecoded(B64Decode(s))

-----------------------------------------------------------------------------
(* utf-8 and gzip (the standard library, as converters/text_converter.py   *)
(* uses it).  The DEFLATE stream is written and read in stored form        *)
(* (BTYPE = 00): compression itself is not modelled.  The member's CRC-32  *)
(* is stood for by a 16-bit byte sum.  Headers drawn have FLG = 0, and     *)
(* utf-8 sequences drawn are one or two bytes long.                        *)

\* str.encode('utf-8') for code points below 0x800
RECURSIVE Utf8Encode(_)
Utf8Encode(text) ==
    IF \A i \in 1..Len(text) : text[i] < 128 THEN text
    ELSE LET c == Head(text)
         IN  (IF c < 128 THEN <<c>>
              ELSE <<192 + (c \div 64), 128 + (c % 64)>>)
             \o Utf8Encode(Tail(text))

\* bytes.decode('utf-8'): UnicodeDecodeError for a malformed sequence
RECURSIVE Utf8DecodeFrom(_, _, _)
Utf8DecodeFrom(b, i, acc) ==
    IF i > Len(b) THEN Ret(acc)
    ELSE IF b[i] < 128 THEN Utf8DecodeFrom(b, i + 1, Append(acc, b[i]))
    ELSE IF b[i] >= 194 /\ b[i] <= 223 /\ i + 1 <= Len(b)
            /\ b[i + 1] >= 128 /\ b[i + 1] <= 191
         THEN Utf8DecodeFrom(b, i + 2,
                  Append(acc, ((b[i] - 192) * 64) + (b[i + 1] - 128)))
         ELSE Raise

Utf8Decode(b) ==
    IF \A i \in 1..Len(b) : b[i] < 128 THEN Ret(b)
    ELSE Utf8DecodeFrom(b, 1, <<>>)

RECURSIVE ByteSum(_, _, _)
ByteSum(data, lo, hi) ==
    IF lo > hi THEN 0
    ELSE IF lo = hi THEN data[lo]
    ELSE LET mid == (lo + hi) \div 2
         IN  (ByteSum(data, lo, mid) + ByteSum(data, mid + 1, hi)) % 65536

\* the 4 trailer bytes that depend on the data alone
GzipCrc(data) == PackInt32(ByteSum(data, 1, Len(data)))

\* one gzip member: ID1 ID2 CM FLG MTIME(4) XFL OS, the stream, CRC, ISIZE
GzipMember(data, mtime, xfl, os) ==
    <<31, 139, 8, 0>> \o PackInt32(mtime) \o <<xfl, os>>
    \o <<1, Len(data) % 256, Len(data) \div 256,
            255 - (Len(data) % 256), 255 - (Len(data) \div 256)>>
    \o data
    \o GzipCrc(data) \o PackInt32(Len(data))

\* gzip.GzipFile(fileobj=..., mode='wb').write(data) and close, at time `now`:
\* no mtime is passed, so the header carries the clock
GzipWrite(data, now) == GzipMember(data, now, 2, 255)

\* the end of a member whose stored block holds `data`: the trailer is
\* checked against the data read
GzipTrailerChecked(b, n, data) ==
    IF SubSeq(b, 16 + n, 19 + n) # GzipCrc(data)
       \/ SubSeq(b, 20 + n, 23 + n) # PackInt32(n)
    THEN Raise
    ELSE Ret(data)

\* the stored block of n bytes after the header
GzipBlock(b, n) ==
    IF b[14] # 255 - b[12] \/ b[15] # 255 - b[13] THEN Raise
    ELSE IF Len(b) # 15 + n + 8 THEN Raise
    ELSE GzipTrailerChecked(b, n, SubSeq(b, 16, 15 + n))

\* gzip.GzipFile(fileobj=..., mode='rb').read(): BadGzipFile, EOFError or
\* zlib.error for a broken member; an empty file reads as no bytes
GzipRead(b) ==
    IF b = <<>> THEN Ret(<<>>)
    ELSE IF Len(b) < 10 \/ b[1] # 31 \/ b[2] # 139 \/ b[3] # 8 THEN Raise
    ELSE IF Len(b) < 15 \/ b[11] # 1 THEN Raise
    ELSE GzipBlock(b, b[12] + (256 * b[13]))

-----------------------------------------------------------------------------
(* converters/text_converter.py                                            *)

\* decompressed_bytes.decode('utf-8'), if reading the member did not raise
DecodeUtf8(decompressed_bytes) ==
    IF decompressed_bytes.raised THEN Raise
    ELSE Utf8Decode(decompressed_bytes.value)

\* gzip_stream.read() on the decoded bytes, if b64decode did not raise
Gunzip(compressed_bytes) ==
    IF compressed_bytes.raised THEN Raise
    ELSE DecodeUtf8(GzipRead(compressed_bytes.value))

\* the try block of TextCompressionUtility.decompress
DecompressBody(compressed_string) == Gunzip(B64Decode(compressed_string))

\* except Exception as e: print(...); return ""
Caught(r) == IF r.raised THEN Ret(<<>>) ELSE r

\* variant of decompress: the try block without its except clause
decompressNoExcept(compressed_string) ==
    IF compressed_string = <<>> THEN Ret(<<>>)
    ELSE DecompressBody(compressed_string)

\* TextCompressionUtility.decompress(compressed_string)
decompress(compressed_string) ==
    IF compressed_string = <<>> THEN Ret(<<>>)
    ELSE Caught(DecompressBody(compressed_string))

\* TextCompressionUtility.compress(text), called when the clock reads `now`
compress(text, now) ==
    IF text = <<>> THEN Ret(<<>>)
    ELSE Ret(B64Encode(GzipWrite(Utf8Encode(text), now)))

-----------------------------------------------------------------------------
(* models.py                                                               *)

\* FormationDetailInfo(slot, personality_id, ego1..ego5, enabled, slot_type)
FormationDetailInfo(slot, personality_id, ego1, ego2, ego3, ego4, ego5, enabled, slot_type) ==
    [slot |-> slot, personality_id |-> personality_id,
     ego1 |-> ego1, ego2 |-> ego2, ego3 |-> ego3, ego4 |-> ego4, ego5 |-> ego5,
     enabled |-> enabled, slot_type |-> slot_type]

\* the five ego fields of a formation, in order
EgoIds(f) == <<f.ego1, f.ego2, f.ego3, f.ego4, f.ego5>>

-----------------------------------------------------------------------------
(* formation_deck.py: FormationDeckCode.decode                             *)

\* variant of ReadBits: a read past the end shifts a zero bit in
RECURSIVE ReadBitsZeroFill(_, _, _, _)
ReadBitsZeroFill(bs, bit_index, n, value) ==
    IF n = 0 THEN [value |-> value, bit_index |-> bit_index]
    ELSE IF bit_index < Len(bs)
         THEN ReadBitsZeroFill(bs, bit_index + 1, n - 1,
                               (value * 2) + (IF bs[bit_index + 1] THEN 1 ELSE 0))
         ELSE ReadBitsZeroFill(bs, bit_index, n - 1, value * 2)

\* for i in range(n): if bit_index < len(bools): value = (value * 2) | bit
RECURSIVE ReadBits(_, _, _, _)
ReadBits(bs, bit_index, n, value) ==
    IF n = 0 THEN [value |-> value, bit_index |-> bit_index]
    ELSE IF bit_index < Len(bs)
         THEN ReadBits(bs, bit_index + 1, n - 1,
                       (value * 2) + (IF bs[bit_index + 1] THEN 1 ELSE 0))
         ELSE ReadBits(bs, bit_index, n - 1, value)

\* the widths of the fields read for one slot, in the order they are read:
\* personality, slot type, then for _ in range(5): an ego
FieldBits == <<PersonalityBits, SlotTypeBits,
               EgoBits, EgoBits, EgoBits, EgoBits, EgoBits>>

\* the fields of one slot read one after the other, each from where the
\* previous read left bit_index
RECURSIVE ReadFields(_, _, _)
ReadFieldsNext(bs, values, r) ==
    ReadFields(bs, r.bit_index, Append(values, r.value))

ReadFields(bs, bit_index, values) ==
    IF Len(values) = Len(FieldBits)
    THEN [values |-> values, bit_index |-> bit_index]
    ELSE ReadFieldsNext(bs, values,
             ReadBits(bs, bit_index, FieldBits[Len(values) + 1], 0))

\* personality_mod, slot_type and ego_mods as the loop body names them
SlotRead(r) ==
    [personality_mod |-> r.values[1], slot_type |-> r.values[2],
     ego_mods |-> SubSeq(r.values, 3, 2 + EgoCount),
     bit_index |-> r.bit_index]

\* the six moduli and the slot type read for one slot, from bit_index on
ReadSlot(bs, bit_index) == SlotRead(ReadFields(bs, bit_index, <<>>))

\* personality_id = personality_mod + 10000 + slot_offset, or 0
PersonalityId(personality_mod, slot_num) ==
    IF personality_mod > 0
    THEN personality_mod + PersonalityBase + (slot_num * SlotStride)
    ELSE 0

\* ego_mod + 20000 + slot_offset, or 0
EgoId(ego_mod, slot_num) ==
    IF ego_mod > 0 THEN ego_mod + EgoBase + (slot_num * SlotStride) ELSE 0

\* variant of PersonalityBad: the upper limit one digit short
PersonalityBadFourDigits(personality_id) ==
    personality_id > 0 /\ (personality_id < PersonalityBase \/ personality_id > 9999)

\* the validation checks of decode
PersonalityBad(personality_id) ==
    personality_id > 0 /\ (personality_id < PersonalityBase \/ personality_id > IdMax)

EgoBad(ego_id) == ego_id > 0 /\ (ego_id < EgoBase \/ ego_id > IdMax)

SlotTypeBad(slot_type) == slot_type < 0 \/ slot_type > SlotTypeMax

\* variant of Emits: a slot with a slot type is emitted as a placeholder
EmitsPlaceholder(rd, egos) ==
    rd.personality_mod > 0 \/ (\E k \in 1..EgoCount : egos[k] # 0)
    \/ rd.slot_type > 0

\* if personality_mod > 0 or any(egos): a formation is appended
Emits(rd, egos) ==
    rd.personality_mod > 0 \/ (\E k \in 1..EgoCount : egos[k] # 0)

\* the validation block for one slot: out-of-range values are zeroed when
\* validate is set
Validated(v, pid0, egos0, slot_type) ==
    [personality_id |-> IF v /\ PersonalityBad(pid0) THEN 0 ELSE pid0,
     egos |-> [k \in 1..EgoCount |->
                  IF v /\ EgoBad(egos0[k]) THEN 0 ELSE egos0[k]],
     slot_type |-> IF v /\ SlotTypeBad(slot_type) THEN 0 ELSE slot_type,
     had_errors |-> v /\ (PersonalityBad(pid0)
                          \/ (\E k \in 1..EgoCount : EgoBad(egos0[k]))
                          \/ SlotTypeBad(slot_type))]

\* the end of the loop body: the formation appended (emit) or not
Emitted(rd, slot_num, c) ==
    [had_errors |-> c.had_errors,
     emit |-> Emits(rd, c.egos),
     formation |-> FormationDetailInfo(slot_num, c.personality_id,
                       c.egos[1], c.egos[2], c.egos[3], c.egos[4], c.egos[5],
                       c.slot_type > 0, c.slot_type)]

\* the body of decode's loop for slot_num, after the reads: reconstruction,
\* validation, and the formation appended (emit) or not
DecodeSlot(rd, slot_num, v) ==
    Emitted(rd, slot_num,
            Validated(v, PersonalityId(rd.personality_mod, slot_num),
                      [k \in 1..EgoCount |-> EgoId(rd.ego_mods[k], slot_num)],
                      rd.slot_type))

\* for slot_num in range(1, 13): ...
RECURSIVE DecodeSlots(_, _, _, _, _, _)
DecodeSlotsAppend(bs, slot_num, v, acc, had_errors, rd, d) ==
    IF d.emit
    THEN DecodeSlots(bs, slot_num + 1, rd.bit_index, v,
                     Append(acc, d.formation), had_errors \/ d.had_errors)
    ELSE DecodeSlots(bs, slot_num + 1, rd.bit_index, v,
                     acc, had_errors \/ d.had_errors)

DecodeSlotsBody(bs, slot_num, v, acc, had_errors, rd) ==
    DecodeSlotsAppend(bs, slot_num, v, acc, had_errors, rd,
                      DecodeSlot(rd, slot_num, v))

DecodeSlots(bs, slot_num, bit_index, v, acc, had_errors) ==
    IF slot_num > NumSlots
    THEN [raised |-> FALSE, formations |-> acc, had_errors |-> had_errors]
    ELSE DecodeSlotsBody(bs, slot_num, v, acc, had_errors,
                         ReadSlot(bs, bit_index))

NoFormations == [raised |-> FALSE, formations |-> <<>>, had_errors |-> FALSE]
DecodeRaised == [raised |-> TRUE, formations |-> <<>>, had_errors |-> FALSE]

\* decode from `bools = from_base64(inner_b64, 0x229)` on
DecodeBools(bs, v) ==
    IF bs.raised THEN DecodeRaised
    ELSE IF bs.value = <<>> THEN NoFormations
    ELSE DecodeSlots(bs.value, 1, 1, v, <<>>, FALSE)

\* decode from `inner_b64 = decompress(encoded)` on
DecodeInner(inner, v) ==
    IF inner.raised THEN DecodeRaised
    ELSE IF inner.value = <<>> THEN NoFormations
    ELSE DecodeBools(from_base64(inner.value, ExpectedBits), v)

\* FormationDeckCode.decode(encoded, validate); an exception of a callee
\* would leave decode, which has no handler of its own
decode(encoded, v) ==
    IF encoded = <<>> THEN NoFormations
    ELSE DecodeInner(decompress(encoded), v)

-----------------------------------------------------------------------------
(* formation_deck.py: FormationDeckCode.encode                             *)

\* variant of int_to_bools: the bits appended least significant first
IntToBoolsLsbFirst(value, bit_count) ==
    [k \in 1..bit_count |-> BitAt(value, k - 1) = 1]

\* FormationDeckCode._int_to_bools(value, bit_count)
\* (the k-th bit appended is bit  bit_count - k  of value)
int_to_bools(value, bit_count) ==
    [k \in 1..bit_count |-> BitAt(value, bit_count - k) = 1]

\* variant of ModOf: the modulus taken over the 7-bit range instead of 100
ModOf128(id) == IF id > 0 THEN id % 128 ELSE 0

\* id % 100 if id > 0 else 0
ModOf(id) == IF id > 0 THEN id % SlotStride ELSE 0

\* variant of FormationMapGet: the first formation with a slot kept
FormationMapGetFirst(fs, slot_num) ==
    LET S == {i \in 1..Len(fs) : fs[i].slot = slot_num}
    IN  IF S = {} THEN 0 ELSE CHOOSE i \in S : \A j \in S : i <= j

\* formation_map.get(slot_num) for formation_map = {f.slot: f for f in
\* formations}: the index of the last formation with that slot, 0 for None
FormationMapGet(fs, slot_num) ==
    LET S == {i \in 1..Len(fs) : fs[i].slot = slot_num}
    IN  IF S = {} THEN 0 ELSE CHOOSE i \in S : \A j \in S : j <= i

\* p_mod, s_type, e_mods for the formation at index i of the list (0: None)
FieldsOf(fs, i) ==
    IF i # 0
    THEN [p_mod |-> ModOf(fs[i].personality_id),
          s_type |-> fs[i].slot_type,
          e_mods |-> [k \in 1..EgoCount |-> ModOf(EgoIds(fs[i])[k])]]
    ELSE [p_mod |-> 0, s_type |-> 0, e_mods |-> <<0, 0, 0, 0, 0>>]

\* what encode writes for slot_num: p_mod, s_type, e_mods
SlotFields(fs, slot_num) == FieldsOf(fs, FormationMapGet(fs, slot_num))

\* the three extends of the loop body: 7 bits, 4 bits, 5 times 7 bits
FieldsToBits(w) ==
    int_to_bools(w.p_mod, PersonalityBits)
    \o int_to_bools(w.s_type, SlotTypeBits)
    \o int_to_bools(w.e_mods[1], EgoBits)
    \o int_to_bools(w.e_mods[2], EgoBits)
    \o int_to_bools(w.e_mods[3], EgoBits)
    \o int_to_bools(w.e_mods[4], EgoBits)
    \o int_to_bools(w.e_mods[5], EgoBits)

\* the bits appended to all_bits for slot_num
SlotBits(fs, slot_num) == FieldsToBits(SlotFields(fs, slot_num))

\* all_bits = [True], then the bits of slots 1..12
RECURSIVE AllBitsFrom(_, _)
AllBitsFrom(fs, slot_num) ==
    IF slot_num > NumSlots THEN <<>>
    ELSE SlotBits(fs, slot_num) \o AllBitsFrom(fs, slot_num + 1)

\* variant of AllBits: the reserved leading bit forgotten
AllBitsNoLead(fs) == AllBitsFrom(fs, 1)

AllBits(fs) == <<TRUE>> \o AllBitsFrom(fs, 1)

\* variant of OutOfRuleInts: the fields in the order of the dataclass
RECURSIVE OutOfRuleIntsFieldOrder(_)
OutOfRuleIntsFieldOrder(fs) ==
    IF fs = <<>> THEN <<>>
    ELSE LET f == Head(fs)
         IN  <<f.personality_id, f.ego1, f.ego2, f.ego3, f.ego4, f.ego5,
               f.slot_type>>
             \o OutOfRuleIntsFieldOrder(Tail(fs))

\* int_list of the out-of-rule path
RECURSIVE OutOfRuleInts(_)
OutOfRuleInts(fs) ==
    IF fs = <<>> THEN <<>>
    ELSE LET f == Head(fs)
         IN  <<f.personality_id, f.slot_type,
               f.ego1, f.ego2, f.ego3, f.ego4, f.ego5>>
             \o OutOfRuleInts(Tail(fs))

\* inner_b64 of encode, for a non-empty list
InnerB64(fs, oor) ==
    IF oor THEN IntListEncode(OutOfRuleInts(fs))
    ELSE to_base64(AllBits(fs))

\* return TextCompressionUtility.compress(inner_b64)
CompressInner(inner, now) ==
    IF inner.raised THEN Raise ELSE compress(inner.value, now)

\* FormationDeckCode.encode(formations, out_of_rule), called when the clock
\* reads `now`
encode(fs, oor, now) ==
    IF fs = <<>> THEN Ret(<<>>) ELSE CompressInner(InnerB64(fs, oor), now)

-----------------------------------------------------------------------------
(* Inputs drawn.                                                           *)

\* a formation with the enabled flag a caller would set for its slot type
F(slot, personality_id, ego1, ego2, ego3, ego4, ego5, slot_type) ==
    FormationDetailInfo(slot, personality_id, ego1, ego2, ego3, ego4, ego5,
                        slot_type > 0, slot_type)

\* formations a caller may hand to encode
FormationCatalogue ==
    { F(1, 10101, 20101, 20102, 20103, 0, 0, 1),     \* the tests' sample
      F(1, 99999999, 0, 0, 0, 0, 0, 1),              \* the tests' invalid id
      F(2, 0, 0, 0, 0, 0, 0, 3),                     \* no ids at all
      F(2, 10200, 20299, 0, 0, 0, 0, 0),             \* id ending in 00
      F(3, -7, 20399, 99999, 1, 128, 20300, 23),     \* slot type over 4 bits
      F(12, 11299, 0, 0, 0, 0, 21250, 15),           \* last slot
      F(13, -1, Int32Min, Int32Max, 0, 0, 5, 16) }   \* nothing in range

\* what a producer may have written for one slot of the bit stream
Wire(p_mod, s_type, e1, e2, e3, e4, e5) ==
    [p_mod |-> p_mod, s_type |-> s_type, e_mods |-> <<e1, e2, e3, e4, e5>>]

WireFirst ==
    { Wire(0, 0, 0, 0, 0, 0, 0),
      Wire(1, 0, 1, 0, 0, 0, 0),
      Wire(99, 2, 0, 0, 0, 0, 99),
      Wire(100, 1, 0, 0, 0, 0, 0),
      Wire(0, 5, 0, 0, 0, 0, 0),
      Wire(127, 15, 127, 127, 127, 127, 127) }

WireLast ==
    { Wire(0, 9, 0, 0, 0, 0, 0),
      Wire(127, 15, 0, 0, 0, 0, 127) }

\* lengths at which a producer's bit stream may end
WireLengths == {ExpectedBits, ExpectedBits - 1, 8}

WireBitsOf(w) == FieldsToBits(w)

\* a stream with slot 1 and slot 12 filled in, cut to n bits
WireStream(lead, w1, w12, n) ==
    SubSeq(<<lead>> \o WireBitsOf(w1)
           \o [k \in 1..((NumSlots - 2) * 46) |-> FALSE]
           \o WireBitsOf(w12), 1, n)

\* the code another producer (the game client: MTIME 0, XFL 0, OS 10) makes
\* of an inner string
ForeignCode(inner) == B64Encode(GzipMember(Utf8Encode(inner), 0, 0, 10))

StreamCodes ==
    { ForeignCode(B64Encode(BoolsToBytes(WireStream(lead, w1, w12, n)))) :
        lead \in BOOLEAN, w1 \in WireFirst, w12 \in WireLast, n \in WireLengths }

NotValidBase64 ==   \* "not-valid-base64!"
    <<110, 111, 116, 45, 118, 97, 108, 105, 100, 45, 98, 97, 115, 101, 54, 52, 33>>

FourPads == <<61, 61, 61, 61>>      \* "===="

\* strings that are not the code of any deck
MalformedCodes ==
    { NotValidBase64,
      FourPads,
      <<233>>,                                              \* non-ASCII
      B64Encode(<<104, 105>>),                              \* not gzip
      B64Encode(SubSeq(GzipMember(FourPads, 0, 0, 10), 1, 20)),   \* cut short
      B64Encode(GzipMember(FourPads, 0, 0, 10) \o <<0>>),   \* trailer off
      B64Encode(GzipMember(<<>>, 0, 0, 10)),                \* gzip of nothing
      B64Encode(GzipMember(<<255>>, 0, 0, 10)),             \* not utf-8
      ForeignCode(NotValidBase64),
      ForeignCode(FourPads),
      ForeignCode(<<233>>) }

ReceivedCodes == StreamCodes \cup MalformedCodes

Int32Samples ==
    {Int32Min, -50, -1, 0, 1, 255, 256, 12345, 1000000000, Int32Max}

-----------------------------------------------------------------------------
(* The driver: what a caller (the tests, a CLI) does with the codec.       *)

DeckIdle ==
    /\ formations = <<>> /\ from_decode = FALSE /\ out_of_rule = FALSE
    /\ clock = 0 /\ code = <<>> /\ code_from = "none" /\ inner_b64 = <<>>
    /\ validate = FALSE /\ decoded = NoFormations

BoolIdle ==
    bools = <<>> /\ b64_string = <<>> /\ expected_count = 0 /\ bools_out = <<>>

IntIdle ==
    /\ int_list = <<>> /\ int_none = FALSE /\ int_error = ""
    /\ int_b64 = <<>> /\ int_out = <<>>

Init == pc = "build" /\ DeckIdle /\ BoolIdle /\ IntIdle

\* the caller appends a formation to the list it will encode
AddFormation(f) ==
    /\ pc = "build" /\ ~from_decode /\ Len(formations) < MaxForms
    /\ formations' = Append(formations, f)
    /\ UNCHANGED <<pc, from_decode, out_of_rule, clock, code, code_from,
                   inner_b64, validate, decoded, boolVars, intVars>>

\* a second passes between two calls of encode
Tick ==
    /\ pc = "encoded" /\ clock < MaxClock
    /\ clock' = clock + 1
    /\ UNCHANGED <<pc, formations, from_decode, out_of_rule, code, code_from,
                   inner_b64, validate, decoded, boolVars, intVars>>

\* code = FormationDeckCode.encode(formations, out_of_rule=oor)
Encode(oor) ==
    /\ pc \in {"build", "encoded"}
    /\ out_of_rule' = oor
    /\ inner_b64' = IF formations = <<>> THEN <<>>
                    ELSE InnerB64(formations, oor).value
    /\ code' = encode(formations, oor, clock).value
    /\ code_from' = "encode"
    /\ pc' = "encoded"
    /\ UNCHANGED <<formations, from_decode, clock, validate, decoded,
                   boolVars, intVars>>

\* the caller is handed a string from outside
Receive(text) ==
    /\ pc = "build" /\ ~from_decode /\ formations = <<>>
    /\ code' = text
    /\ code_from' = "receive"
    /\ pc' = "received"
    /\ UNCHANGED <<formations, from_decode, out_of_rule, clock, inner_b64,
                   validate, decoded, boolVars, intVars>>

\* decoded = FormationDeckCode.decode(code, validate=v)
Decode(v) ==
    /\ pc \in {"encoded", "received"}
    /\ validate' = v
    /\ decoded' = decode(code, v)
    /\ pc' = "decoded"
    /\ UNCHANGED <<formations, from_decode, out_of_rule, clock, code,
                   code_from, inner_b64, boolVars, intVars>>

\* the caller goes on with the list decode returned (as the round-trip test)
Reuse ==
    /\ pc = "decoded" /\ ~from_decode /\ ~decoded.raised
    /\ formations' = decoded.formations
    /\ from_decode' = TRUE
    /\ pc' = "build"
    /\ out_of_rule' = FALSE /\ code' = <<>> /\ code_from' = "none"
    /\ inner_b64' = <<>> /\ validate' = FALSE /\ decoded' = NoFormations
    /\ UNCHANGED <<clock, boolVars, intVars>>

\* encode and decode in one sitting: lists are built or received, encoded,
\* decoded, and a decoded list may be encoded again
Next ==
    \/ \E f \in FormationCatalogue : AddFormation(f)
    \/ \E oor \in BOOLEAN : Encode(oor)
    \/ \E text \in ReceivedCodes : Receive(text)
    \/ \E v \in BOOLEAN : Decode(v)
    \/ Reuse

Spec == Init /\ [][Next]_vars

\* encode called again and again while time passes
NextClock ==
    \/ \E f \in FormationCatalogue : AddFormation(f)
    \/ Tick
    \/ \E oor \in BOOLEAN : Encode(oor)

SpecClock == Init /\ [][NextClock]_vars

-----------------------------------------------------------------------------
(* The driver of BoolListBase64Converter alone.                            *)

InitBool == pc = "bools" /\ DeckIdle /\ BoolIdle /\ IntIdle

AppendBool(b) ==
    /\ pc = "bools" /\ Len(bools) < MaxBits
    /\ bools' = Append(bools, b)
    /\ UNCHANGED <<pc, b64_string, expected_count, bools_out, deckVars, intVars>>

\* b64_string = BoolListBase64Converter.to_base64(bools)
ToBase64 ==
    /\ pc = "bools"
    /\ b64_string' = to_base64(bools).value
    /\ pc' = "to_base64"
    /\ UNCHANGED <<bools, expected_count, bools_out, deckVars, intVars>>

\* bools_out = BoolListBase64Converter.from_base64(b64_string, e)
FromBase64(e) ==
    /\ pc = "to_base64"
    /\ expected_count' = e
    /\ bools_out' = from_base64(b64_string, e).value
    /\ pc' = "from_base64"
    /\ UNCHANGED <<bools, b64_string, deckVars, intVars>>

\* values of expected_count a caller passes: none, the length of the list,
\* fewer bits than one byte, more bits than one byte
ExpectedCounts == {0, Len(bools), 3, 12}

NextBool ==
    \/ \E b \in BOOLEAN : AppendBool(b)
    \/ ToBase64
    \/ \E e \in ExpectedCounts : FromBase64(e)

SpecBool == InitBool /\ [][NextBool]_vars

-----------------------------------------------------------------------------
(* The driver of IntListBase64Converter alone.                             *)

InitInt == pc = "ints" /\ DeckIdle /\ BoolIdle /\ IntIdle

AppendInt(val) ==
    /\ pc = "ints" /\ Len(int_list) < MaxInts
    /\ int_list' = Append(int_list, val)
    /\ UNCHANGED <<pc, int_none, int_error, int_b64, int_out, deckVars, boolVars>>

\* the outcome of a call of encode, as the caller sees it
IntEncodeReturns(r) ==
    /\ int_b64' = r.value
    /\ int_error' = IF r.raised THEN r.error ELSE ""
    /\ pc' = IF r.raised THEN "int_raised" ELSE "int_encoded"

\* int_b64 = IntListBase64Converter.encode(int_list)
IntEncode ==
    /\ pc = "ints"
    /\ int_none' = FALSE
    /\ IntEncodeReturns(IntListEncodeCall(FALSE, int_list))
    /\ UNCHANGED <<int_list, int_out, deckVars, boolVars>>

\* IntListBase64Converter.encode(None)
IntEncodeNone ==
    /\ pc = "ints" /\ int_list = <<>>
    /\ int_none' = TRUE
    /\ IntEncodeReturns(IntListEncodeCall(TRUE, int_list))
    /\ UNCHANGED <<int_list, int_out, deckVars, boolVars>>

\* int_out = IntListBase64Converter.decode(int_b64)
IntDecode ==
    /\ pc = "int_encoded"
    /\ int_out' = IntListDecode(int_b64).value
    /\ pc' = "int_decoded"
    /\ UNCHANGED <<int_list, int_none, int_error, int_b64, deckVars, boolVars>>

NextInt ==
    \/ \E val \in Int32Samples : AppendInt(val)
    \/ IntEncode
    \/ IntEncodeNone
    \/ IntDecode

SpecInt == InitInt /\ [][NextInt]_vars

-----------------------------------------------------------------------------
(* Properties.                                                             *)

Indices(fs) == 1..Len(fs)

\* unique slot numbers, all in 1..12
UniqueSlots(fs) ==
    /\ \A i \in Indices(fs) : fs[i].slot \in 1..NumSlots
    /\ \A i, j \in Indices(fs) : i # j => fs[i].slot # fs[j].slot

\* at least one nonzero id
HasId(f) == f.personality_id # 0 \/ \E k \in 1..EgoCount : EgoIds(f)[k] # 0

SameFields(f, g) ==
    /\ f.personality_id = g.personality_id
    /\ EgoIds(f) = EgoIds(g)
    /\ f.slot_type = g.slot_type

\* the field ranges of the data model
ValidRanges(f) ==
    /\ f.personality_id = 0 \/ f.personality_id \in PersonalityBase..IdMax
    /\ \A k \in 1..EgoCount : EgoIds(f)[k] = 0 \/ EgoIds(f)[k] \in EgoBase..IdMax
    /\ f.slot_type \in 0..SlotTypeMax

\* every nonzero id is  base + 100 * slot + m  with m in 1..99
InNamespace(f) ==
    /\ f.personality_id = 0
       \/ f.personality_id - (PersonalityBase + (f.slot * SlotStride)) \in 1..(SlotStride - 1)
    /\ \A k \in 1..EgoCount :
          \/ EgoIds(f)[k] = 0
          \/ EgoIds(f)[k] - (EgoBase + (f.slot * SlotStride)) \in 1..(SlotStride - 1)
    /\ f.slot_type \in 0..SlotTypeMax

\* ds holds exactly the formations of fs that have an id, fields unchanged
ExactlyNonempty(fs, ds) ==
    /\ \A i \in Indices(fs) :
          HasId(fs[i]) => \E j \in Indices(ds) :
                              ds[j].slot = fs[i].slot /\ SameFields(ds[j], fs[i])
    /\ \A j \in Indices(ds) :
          \E i \in Indices(fs) :
              HasId(fs[i]) /\ ds[j].slot = fs[i].slot /\ SameFields(ds[j], fs[i])
    /\ Len(ds) = Cardinality({i \in Indices(fs) : HasId(fs[i])})

\* decode(encode(formations, out_of_rule=False), validate) has returned
StandardRoundTrip ==
    pc = "decoded" /\ code_from = "encode" /\ ~out_of_rule /\ ~decoded.raised

\* C1 as stated: for unique slots in 1..12 and fields within the valid
\* ranges, decode(encode(slots), validate=false) returns exactly the input
\* slots that have a nonzero id, with identical ids and slot type.
C1_AsStated ==
    (StandardRoundTrip /\ ~validate /\ UniqueSlots(formations)
        /\ \A i \in Indices(formations) : ValidRanges(formations[i]))
    => ExactlyNonempty(formations, decoded.formations)

\* C1 amended: the round trip holds when every nonzero id lies in the
\* namespace of its own slot (base + 100 * slot + m, 1 <= m <= 99).
C1_RoundTripInNamespace ==
    (StandardRoundTrip /\ ~validate /\ UniqueSlots(formations)
        /\ \A i \in Indices(formations) : InNamespace(formations[i]))
    => ExactlyNonempty(formations, decoded.formations)

C1_Witness ==
    /\ StandardRoundTrip /\ ~validate /\ UniqueSlots(formations)
    /\ \A i \in Indices(formations) : InNamespace(formations[i])
    /\ \E i, j \in Indices(formations) : HasId(formations[i]) /\ ~HasId(formations[j])
    /\ Len(decoded.formations) = 1

\* C2: one formation (slot 1, slot type 1, no ego) with personality_id
\* 99999999, encoded on the standard path and decoded with validate=true,
\* yields hadErrors = true and the personality_id of that slot reset to 0.
C2_ValidationCatchesInvalidId ==
    (StandardRoundTrip /\ validate
        /\ formations = <<F(1, 99999999, 0, 0, 0, 0, 0, 1)>>)
    => /\ decoded.had_errors
       /\ \A j \in Indices(decoded.formations) :
             decoded.formations[j].slot = 1
                => decoded.formations[j].personality_id = 0

\* C3: for a non-empty list D that decode returned, decode(encode(D)) has
\* the same slot numbers as D and, for each slot, the same personality_id,
\* ego1..ego5, slot_type and enabled.
C3_DecodedListRoundTrips ==
    (StandardRoundTrip /\ from_decode /\ formations # <<>>)
    => /\ {formations[i].slot : i \in Indices(formations)}
            = {decoded.formations[j].slot : j \in Indices(decoded.formations)}
       /\ \A i \in Indices(formations), j \in Indices(decoded.formations) :
             formations[i].slot = decoded.formations[j].slot
                => formations[i] = decoded.formations[j]

\* the byte buffer the inner payload represents
InnerBytes == B64Decode(inner_b64).value

\* encode(formations, out_of_rule=False) has returned, formations non-empty
StandardEncoded ==
    pc = "encoded" /\ ~out_of_rule /\ formations # <<>>

\* one leading true bit, then 46 bits per slot 1..12 in ascending order, and
\* the payload bytes carry these bits MSB-first
BitLayout ==
    LET bits == AllBits(formations)
    IN  /\ Len(bits) = ExpectedBits
        /\ bits[1] = TRUE
        /\ \A s \in 1..NumSlots :
              SubSeq(bits, 2 + (46 * (s - 1)), 1 + (46 * s)) = SlotBits(formations, s)
        /\ BitsOfData(InnerBytes, ExpectedBits) = bits

\* C4 as stated: the standard path builds 553 bits, and the payload is
\* exactly 69 bytes with the unused trailing bits of the last byte zero.
C4_AsStated ==
    StandardEncoded
    => /\ BitLayout
       /\ Len(InnerBytes) = 69
       /\ InnerBytes[Len(InnerBytes)] % 128 = 0

\* C4 amended: the standard path builds 553 bits, and the payload is exactly
\* 70 bytes, the 7 unused trailing bits of the last byte zero.
C4_Layout70Bytes ==
    StandardEncoded
    => /\ BitLayout
       /\ Len(InnerBytes) = 70
       /\ (8 * Len(InnerBytes)) - ExpectedBits = 7
       /\ InnerBytes[Len(InnerBytes)] % 128 = 0

C4_Witness ==
    /\ StandardEncoded /\ Len(formations) = 2
    /\ \E i \in Indices(formations) :
          formations[i].slot = NumSlots /\ formations[i].ego5 % 2 = 0
             /\ formations[i].ego5 > 0
    /\ Len(InnerBytes) = 70

\* C5: from_base64(to_base64(B), len(B)) = B for every bool list B, the
\* empty one and lengths off a multiple of 8 included.
C5_BoolRoundTrip ==
    (pc = "from_base64" /\ expected_count = Len(bools)) => bools_out = bools

C5_Witness ==
    /\ pc = "from_base64" /\ expected_count = Len(bools)
    /\ Len(bools) = 9 /\ bools[9] /\ ~bools[1] /\ bools[2]
    /\ bools_out = bools

\* the bytes of a signed 32-bit value, little-endian two's complement
LittleEndian(val) ==
    << val % 256, (val \div 256) % 256, (val \div 65536) % 256,
       (val \div 16777216) % 256 >>

\* C6: IntListBase64Converter.decode(encode(v)) = v for every list of
\* signed 32-bit integers, each carried as 4 little-endian bytes in input
\* order.
C6_IntRoundTrip ==
    pc = "int_decoded"
    => /\ int_out = int_list
       /\ LET data == B64Decode(int_b64).value
          IN  /\ Len(data) = 4 * Len(int_list)
              /\ \A k \in Indices(int_list) :
                    SubSeq(data, (4 * k) - 3, 4 * k) = LittleEndian(int_list[k])

C6_Witness ==
    pc = "int_decoded" /\ int_list = <<Int32Min, Int32Max>> /\ int_out = int_list

\* a layer fails or yields an empty value
FailsOrEmpty(r) == r.raised \/ r.value = <<>>

\* the inner payload r fails base-64 decoding or yields no bits
InnerFailsOf(r) == ~r.raised /\ FailsOrEmpty(B64Decode(r.value))

\* one of the cases in which decode is to return ([], false)
NothingToDecode(r) == FailsOrEmpty(r) \/ InnerFailsOf(r)

\* C7: decode never raises; it returns ([], false) for the empty string,
\* when decompress fails or yields the empty string, and when the inner
\* payload fails base-64 decoding or yields no bits.
C7_DecodeNeverRaises ==
    pc = "decoded"
    => /\ ~decoded.raised
       /\ (code = <<>> \/ NothingToDecode(DecompressBody(code)))
             => (decoded.formations = <<>> /\ ~decoded.had_errors)

C7_Witness ==
    /\ pc = "decoded" /\ code # <<>> /\ DecompressBody(code).raised
    /\ decoded = NoFormations

\* the reads of decode for slots slot_num..12, from bit_index on
RECURSIVE SlotReads(_, _, _)
SlotReadsFrom(bs, slot_num, rd) ==
    <<rd>> \o SlotReads(bs, slot_num + 1, rd.bit_index)

SlotReads(bs, slot_num, bit_index) ==
    IF slot_num > NumSlots THEN <<>>
    ELSE SlotReadsFrom(bs, slot_num, ReadSlot(bs, bit_index))

\* the bit sequence decode works on
BitsOfCode == from_base64(decompress(code).value, ExpectedBits).value

AllModuliZero(rd) ==
    rd.personality_mod = 0 /\ \A k \in 1..EgoCount : rd.ego_mods[k] = 0

EmittedSlots == {decoded.formations[j].slot : j \in Indices(decoded.formations)}

\* position s is emitted iff one of its six moduli is nonzero
EmittedIffModulus(reads, emitted) ==
    \A s \in 1..NumSlots : (s \in emitted) <=> ~AllModuliZero(reads[s])

\* some position has six zero moduli and a slot type, and is not emitted
PlaceholderOmitted(reads, emitted) ==
    \E s \in 1..NumSlots :
        AllModuliZero(reads[s]) /\ reads[s].slot_type > 0 /\ s \notin emitted

ReadsOf(bs) == IF bs = <<>> THEN <<>> ELSE SlotReads(bs, 1, 1)

\* C8: for both values of validate, decode emits a formation for position s
\* iff one of the six moduli read for s is > 0; a position with six zero
\* moduli is not emitted even when its slot type is nonzero.
C8_EmittedIffModulus ==
    pc = "decoded"
    => LET Holds(bs) == bs # <<>> => EmittedIffModulus(ReadsOf(bs), EmittedSlots)
       IN  Holds(BitsOfCode)

C8_Witness ==
    /\ pc = "decoded" /\ validate /\ EmittedSlots # {}
    /\ PlaceholderOmitted(ReadsOf(BitsOfCode), EmittedSlots)

\* C9: two calls of encode with equal formations and equal out_of_rule
\* return the same string, whenever they are made.
C9_EncodeIsPure ==
    [][(pc = "encoded" /\ pc' = "encoded" /\ formations' = formations
          /\ out_of_rule' = out_of_rule) => code' = code]_vars

\* C10: with out_of_rule=True and N formations the inner payload represents
\* 4 * 7 * N bytes, which the integer-list codec decodes, per formation in
\* list order, to [personality_id, slot_type, ego1..ego5], whatever the
\* slot numbers.
C10_OutOfRuleLayout ==
    (pc = "encoded" /\ out_of_rule /\ formations # <<>>)
    => LET ints == IntListDecode(inner_b64).value
           N    == Len(formations)
       IN  /\ Len(InnerBytes) = 4 * 7 * N
           /\ Len(ints) = 7 * N
           /\ \A i \in 1..N :
                 SubSeq(ints, (7 * i) - 6, 7 * i)
                    = <<formations[i].personality_id, formations[i].slot_type,
                        formations[i].ego1, formations[i].ego2,
                        formations[i].ego3, formations[i].ego4,
                        formations[i].ego5>>

C10_Witness ==
    /\ pc = "encoded" /\ out_of_rule /\ Len(formations) = 2
    /\ formations[1].slot = formations[2].slot
    /\ formations[1].slot \notin 1..NumSlots
    /\ Len(InnerBytes) = 56

\* IntListBase64Converter.encode has been called
IntEncodeCalled == pc \in {"int_encoded", "int_raised"}

\* C11: IntListBase64Converter.encode raises ValueError when its argument is
\* None, and returns the empty string without error when its argument is
\* an empty list.
C11_NoneRaisesEmptyReturns ==
    IntEncodeCalled
    => /\ int_none => (pc = "int_raised" /\ int_error = "ValueError")
       /\ (~int_none /\ int_list = <<>>)
             => (pc = "int_encoded" /\ int_error = "" /\ int_b64 = <<>>)

C11_Witness == pc = "int_raised" /\ int_none /\ int_error = "ValueError"

\* id % 100 when id > 0, else 0
LowTwoDigits(id) == IF id > 0 THEN id % 100 ELSE 0

\* the six moduli of position s in a list with unique slots: those of the
\* formation with slot s, all zero for an absent slot
ModuliOf(fs, s) ==
    IF \E i \in Indices(fs) : fs[i].slot = s
    THEN LET f == fs[CHOOSE i \in Indices(fs) : fs[i].slot = s]
         IN  <<LowTwoDigits(f.personality_id), LowTwoDigits(f.ego1),
               LowTwoDigits(f.ego2), LowTwoDigits(f.ego3),
               LowTwoDigits(f.ego4), LowTwoDigits(f.ego5)>>
    ELSE <<0, 0, 0, 0, 0, 0>>

\* the six moduli decode read for one position
ModuliRead(rd) == <<rd.personality_mod>> \o rd.ego_mods

ModuliReadAsWritten(fs, reads) ==
    \A s \in 1..NumSlots : ModuliRead(reads[s]) = ModuliOf(fs, s)

\* C12: for a list with unique slots in 1..12 and any integer fields, the
\* six moduli decode reads for each position equal the six moduli the
\* standard path wrote for it; no field spills into a neighbour.
C12_ModuliReadAsWritten ==
    (StandardRoundTrip /\ UniqueSlots(formations) /\ formations # <<>>)
    => LET Holds(bs) ==
               Len(bs) = ExpectedBits
               /\ ModuliReadAsWritten(formations, ReadsOf(bs))
       IN  Holds(BitsOfCode)

C12_Witness ==
    /\ StandardRoundTrip /\ UniqueSlots(formations) /\ Len(formations) = 2
    /\ \E i \in Indices(formations) :
          /\ formations[i].slot_type \notin 0..SlotTypeMax
          /\ formations[i].personality_id < 0
          /\ formations[i].ego2 = IdMax
    /\ LET Third(bs) ==
               bs # <<>> /\ ModuliRead(ReadsOf(bs)[3]) = <<0, 99, 99, 1, 28, 0>>
       IN  Third(BitsOfCode)

\* bs followed by zero bits up to 553
ZeroPadded(bs) == bs \o [k \in 1..(ExpectedBits - Len(bs)) |-> FALSE]

\* decode has returned for a received code whose payload holds fewer than
\* 553 bits, but at least one
ShortPayload(bs) ==
    pc = "decoded" /\ code_from = "receive" /\ bs # <<>> /\ Len(bs) < ExpectedBits

\* C13 as stated: for a payload of fewer than 553 bits decode returns what
\* it returns for the same bits followed by zero bits up to 553.
C13_AsStated ==
    LET Holds(bs) ==
            ShortPayload(bs)
            => decoded.formations
                  = DecodeSlots(ZeroPadded(bs), 1, 1, validate, <<>>, FALSE).formations
    IN  Holds(BitsOfCode)

\* the seven fields read for one position, in the order they are read
FieldsRead(rd) == <<rd.personality_mod, rd.slot_type>> \o rd.ego_mods

\* index (0-based) of the first bit of field f of position s
FieldStart(s, f) ==
    1 + (46 * (s - 1))
      + (IF f = 1 THEN 0 ELSE IF f = 2 THEN 7 ELSE 11 + (7 * (f - 3)))

\* the bits of field f of position s that a sequence of n bits lacks
MissingBits(s, f, n) ==
    LET over == (FieldStart(s, f) + FieldBits[f]) - n
    IN  IF over < 0 THEN 0 ELSE Min(over, FieldBits[f])

\* the value of a field given its value in the zero-padded sequence: the
\* supplied bits alone, without the shift the missing bits would give
SuppliedValue(padded_value, s, f, n) == padded_value \div (2 ^ MissingBits(s, f, n))

\* the fields decode works with for position s of a sequence of n bits
SuppliedFields(padded_reads, s, n) ==
    [f \in 1..7 |-> SuppliedValue(FieldsRead(padded_reads[s])[f], s, f, n)]

\* formation g is what the steps after the reads make of fields v at s
MadeOf(g, v, s) ==
    /\ g.personality_id = (IF v[1] > 0 THEN v[1] + 10000 + (100 * s) ELSE 0)
    /\ g.slot_type = v[2]
    /\ EgoIds(g) = [k \in 1..5 |->
                       IF v[k + 2] > 0 THEN v[k + 2] + 20000 + (100 * s) ELSE 0]

ReturnsSuppliedFields(n, padded_reads) ==
    /\ \A j \in Indices(decoded.formations) :
          MadeOf(decoded.formations[j],
                 SuppliedFields(padded_reads, decoded.formations[j].slot, n),
                 decoded.formations[j].slot)
    /\ \A s \in 1..NumSlots :
          (s \in EmittedSlots)
             <=> \E f \in {1, 3, 4, 5, 6, 7} :
                    SuppliedFields(padded_reads, s, n)[f] > 0

\* C13 amended: for a payload of n < 553 bits, each field has the value of
\* its bits below n alone: a field within the n bits is read as in the
\* zero-padded sequence, a field past the end is 0, and the field in which
\* the bits run out is not shifted for its missing bits.
C13_MissingBitsNotShifted ==
    LET Holds(bs) ==
            ShortPayload(bs)
            => ReturnsSuppliedFields(Len(bs), ReadsOf(ZeroPadded(bs)))
    IN  Holds(BitsOfCode)

C13_Witness ==
    LET Reached(bs) ==
            /\ ShortPayload(bs) /\ Len(bs) = ExpectedBits - 1
            /\ \E j \in Indices(decoded.formations) :
                  decoded.formations[j].slot = NumSlots
                     /\ decoded.formations[j].ego5 = 21263
    IN  Reached(BitsOfCode)

\* bit (7 - (i mod 8)) of byte (i div 8) of the buffer is set
MsbFirstBit(data, i) == (data[(i \div 8) + 1] \div (2 ^ (7 - (i % 8)))) % 2 = 1

BitCountAndOrder(data, e, out) ==
    /\ Len(out) = (IF e = 0 THEN 8 * Len(data)
                   ELSE IF e < 8 * Len(data) THEN e ELSE 8 * Len(data))
    /\ \A i \in 0..(Len(out) - 1) : out[i + 1] <=> MsbFirstBit(data, i)

\* C14: for a buffer of n bytes and an expected count e >= 0, from_base64
\* returns 8*n bits when e is 0 and min(e, 8*n) bits otherwise, bit i being
\* bit (7 - (i mod 8)) of byte (i div 8); no padding bits are added.
C14_BitCountAndOrder ==
    pc = "from_base64"
    => BitCountAndOrder(B64Decode(b64_string).value, expected_count, bools_out)

C14_Witness ==
    /\ pc = "from_base64" /\ expected_count = 12
    /\ Len(B64Decode(b64_string).value) = 1
    /\ Len(bools_out) = 8 /\ bools_out[8] /\ ~bools_out[1]

\* every id and slot type of a returned formation lies in the range decode
\* can reconstruct
Reconstructible(f) ==
    /\ f.personality_id = 0 \/ f.personality_id \in 10101..11327
    /\ \A k \in 1..EgoCount : EgoIds(f)[k] = 0 \/ EgoIds(f)[k] \in 20101..21327
    /\ f.slot_type \in 0..15

LastWithSlot(fs, s) ==
    fs[CHOOSE i \in Indices(fs) :
          fs[i].slot = s /\ \A j \in Indices(fs) : fs[j].slot = s => j <= i]

\* for s, s+1, .. 12 in turn: the last formation with that slot, if any
RECURSIVE LastPerSlot(_, _)
LastPerSlot(fs, s) ==
    IF s > NumSlots THEN <<>>
    ELSE (IF \E i \in Indices(fs) : fs[i].slot = s
          THEN <<LastWithSlot(fs, s)>> ELSE <<>>)
         \o LastPerSlot(fs, s + 1)

\* every formation of the list has its slot outside 1..12
OnlyOutOfRange(fs) == \A i \in Indices(fs) : fs[i].slot \notin 1..NumSlots

\* C16: the bits the standard path writes are those it writes for the list
\* of the last formation per slot 1..12; shadowed formations and formations
\* with a slot outside 1..12 change nothing and raise nothing, and a
\* non-empty list of only such formations still gives a non-empty code,
\* which decodes to no slots.
C16_LastPerSlotDecides ==
    /\ StandardEncoded
          => /\ inner_b64 = to_base64(AllBits(LastPerSlot(formations, 1))).value
             /\ ~encode(formations, FALSE, clock).raised
             /\ code # <<>>
    /\ (StandardRoundTrip /\ formations # <<>> /\ OnlyOutOfRange(formations))
          => decoded.formations = <<>>

C16_Witness ==
    /\ StandardEncoded /\ Len(formations) = 2
    /\ formations[1].slot = formations[2].slot
    /\ formations[1].slot \in 1..NumSlots
    /\ formations[1].personality_id % 100 # formations[2].personality_id % 100
    /\ inner_b64 = to_base64(AllBits(<<formations[2]>>)).value

=============================================================================
